---- MODULE Spec2Model ----
(***************************************************************************)
(* Water-bucket puzzle solver (solver.py): the State transition model      *)
(* (get_neighbors, is_goal, equality by values) and the generic            *)
(* breadth-first search with its path reconstruction (unravel_bfs).        *)
(*                                                                         *)
(* A State object is a record of its four attributes.  The predecessor    *)
(* dictionary `explored` is a function whose domain is the set of State    *)
(* objects used as keys; membership and lookup go through State.__eq__,    *)
(* which looks only at values.  Python indexes buckets from 0, the model   *)
(* from 1.                                                                 *)
(***************************************************************************)
EXTENDS Integers, Sequences, FiniteSets, TLC

VARIABLES
    initial_state,  \* the State handed to breadth_first_search
    explored,       \* line 105: State -> predecessor State, or the sentinel
    queue,          \* line 106: FIFO list of State objects
    state,          \* line 108: the state popped last
    pending,        \* line 111: the neighbors the for loop has not reached yet
    path,           \* line 123: the path unravel_bfs is building
    pc,             \* "while": at line 107; "for": at line 111; "unravel": at
                    \* line 124; "done": breadth_first_search returned;
                    \* "main": in the caller; "constructed": a constructor
                    \* call ended; "neighbors": get_neighbors returned;
                    \* "argmax": at line 134;
                    \* "argmax_for": at line 138; "argmax_done": argmax ended
    result,         \* the list breadth_first_search returned (<<>> before a return)
    returned,       \* the results of the calls that returned, in call order
    enqueued,       \* number of queue.append calls made by the current call
    ctor_args,      \* line 23: the arguments of the last State(...) call
    constructed,    \* what that call produced
    domain,         \* line 129: the list handed to argmax
    function,       \* line 129: the scoring function, as its table
    arg,            \* line 136: argmax's best element so far (0: not bound yet)
    max_func_val,   \* line 137: its score (0 before line 137)
    it,             \* line 138: the position the for loop of argmax is at
    func_calls,     \* number of calls of function made by argmax
    outcome         \* how argmax ended: raised or returned, and the value

bfs_vars == <<initial_state, explored, queue, state, pending, path, result,
              returned, enqueued>>

ctor_vars == <<ctor_args, constructed>>

argmax_vars == <<domain, function, arg, max_func_val, it, func_calls, outcome>>

vars == <<initial_state, explored, queue, state, pending, path, pc, result,
          returned, enqueued, ctor_args, constructed, domain, function, arg,
          max_func_val, it, func_calls, outcome>>

----------------------------------------------------------------------------
(* Bounds of the model.                                                    *)

\* Largest capacity of the exhaustively enumerated two-bucket puzzles.
MaxCap == 2

\* Longest list handed to argmax; its elements are the items 1..MaxLen.
MaxLen == 3

\* Largest value of the scoring function handed to argmax.
MaxScore == 2

----------------------------------------------------------------------------
(* class State                                                             *)

\* What a constructor call that raises InvalidConfiguration produces.
InvalidConfiguration == [error |-> "InvalidConfiguration"]

\* A constructor that validates its arguments: it raises on buckets and
\* capacities of different number, a capacity <= 0, a negative value or a
\* value above its capacity.
StateValidated(values, constraints, target, allow_refills) ==
    IF \/ Len(values) # Len(constraints)
       \/ \E i \in DOMAIN constraints : constraints[i] <= 0
       \/ \E i \in DOMAIN values : values[i] < 0
       \/ \E i \in DOMAIN values \cap DOMAIN constraints :
              values[i] > constraints[i]
    THEN InvalidConfiguration
    ELSE [values |-> values, constraints |-> constraints,
          target |-> target, allow_refills |-> allow_refills]

\* State.__init__: the four attributes, stored as given.
State(values, constraints, target, allow_refills) ==
    [values |-> values, constraints |-> constraints,
     target |-> target, allow_refills |-> allow_refills]

\* State._replace: the tuple with position index replaced by new_val.
_replace(values, index, new_val) == [values EXCEPT ![index] = new_val]

\* max() in place of the min() of line 57.
max(a, b) == IF a >= b THEN a ELSE b

\* Line 57: min(val_i, space_left).
min(a, b) == IF a <= b THEN a ELSE b

\* Lines 44-46: emptying every bucket that is not already empty.
EmptyMoves(self) ==
    { _replace(self.values, i, 0) :
        i \in { k \in DOMAIN self.values : self.values[k] # 0 } }

\* FillMoves with the allow_refills test of line 47 left out.
FillMovesAlways(self) ==
    { _replace(self.values, i, self.constraints[i]) :
        i \in { k \in DOMAIN self.values : self.values[k] # self.constraints[k] } }

\* Lines 47-48: filling every bucket that is not full, when refills are allowed.
FillMoves(self) ==
    { _replace(self.values, i, self.constraints[i]) :
        i \in { k \in DOMAIN self.values :
                  self.values[k] # self.constraints[k] /\ self.allow_refills } }

\* Pour with moving = val_i: the min() of line 57 left out.
PourAll(self, i, j) ==
    LET val_i == self.values[i]
        val_j == self.values[j]
    IN  _replace(_replace(self.values, j, val_j + val_i), i, 0)

\* Lines 55-61: the values after pouring bucket i into bucket j.
Pour(self, i, j) ==
    LET val_i == self.values[i]
        val_j == self.values[j]
        space_left == self.constraints[j] - val_j
        moving == min(val_i, space_left)
    IN  _replace(_replace(self.values, j, val_j + moving), i, val_i - moving)

\* PourMoves with `space_left > 0` as the test of line 56.
PourMovesStrict(self) ==
    { Pour(self, p[1], p[2]) :
        p \in { q \in (DOMAIN self.values) \X (DOMAIN self.values) :
                  /\ self.values[q[1]] # 0
                  /\ q[1] # q[2]
                  /\ self.constraints[q[2]] - self.values[q[2]] > 0 } }

\* Lines 51-62: pouring every non-empty bucket i into every other bucket j
\* whose space_left is not negative.
PourMoves(self) ==
    { Pour(self, p[1], p[2]) :
        p \in { q \in (DOMAIN self.values) \X (DOMAIN self.values) :
                  /\ self.values[q[1]] # 0
                  /\ q[1] # q[2]
                  /\ self.constraints[q[2]] - self.values[q[2]] >= 0 } }

\* get_neighbors with allow_refills not handed on at line 65: the new states
\* get the default of line 23.
get_neighbors_default_refills(self) ==
    { State(n, self.constraints, self.target, TRUE) :
        n \in EmptyMoves(self) \cup FillMoves(self) \cup PourMoves(self) }

\* State.get_neighbors: the set of values tuples collected by the two loops,
\* each wrapped in a State that carries the caller's other attributes.
get_neighbors(self) ==
    { State(n, self.constraints, self.target, self.allow_refills) :
        n \in EmptyMoves(self) \cup FillMoves(self) \cup PourMoves(self) }

\* State.is_goal: some bucket holds exactly the target.
is_goal(self) == \E i \in DOMAIN self.values : self.values[i] = self.target

\* State.__eq__ (and __hash__): two State objects are equal iff their values are.
__eq__(self, other) == self.values = other.values

----------------------------------------------------------------------------
(* breadth_first_search and unravel_bfs                                    *)

\* Line 105: the value stored as the predecessor of the initial state, ().
Sentinel == <<>>

\* `x in explored` for x a State or the sentinel: some key equals x.  The
\* sentinel () equals no key, every key being a State with at least one bucket.
InExplored(x, expl) == x # Sentinel /\ \E k \in DOMAIN expl : __eq__(k, x)

\* explored[x]: the value stored under the key that equals x.
Lookup(expl, x) == expl[CHOOSE k \in DOMAIN expl : __eq__(k, x)]

\* list(path): line 126 with the reversed() left out.
unreversed(p) == p

\* Line 126: list(reversed(p)).
reversed(p) == [k \in 1..Len(p) |-> p[Len(p) + 1 - k]]

\* A loop test that stops at the initial state: `explored[p[-1]] != ()`.
predecessor_is_state(p, expl) == Lookup(expl, p[Len(p)]) # Sentinel

\* Line 124: the loop test of unravel_bfs, `p[-1] in explored`.
last_in_explored(p, expl) == InExplored(p[Len(p)], expl)

\* queue.pop(): the last element instead of the first.
queue_pop_last(q) == <<q[Len(q)], SubSeq(q, 1, Len(q) - 1)>>

\* queue[0]: the first element read but not removed.
queue_peek(q) == <<Head(q), q>>

\* Line 108: queue.pop(0), as <<the popped state, the rest of the queue>>.
queue_pop(q) == <<Head(q), Tail(q)>>

\* Every neighbor: the test of line 112 left out.
AllNeighbors(self, expl) == get_neighbors(self)

\* The neighbors that are keys of explored: line 112 as `if i in explored`.
ExploredNeighbors(self, expl) ==
    { i \in get_neighbors(self) : InExplored(i, expl) }

\* Lines 111-112: the neighbors of self for which `i not in explored` holds.
NewNeighbors(self, expl) ==
    { i \in get_neighbors(self) : ~InExplored(i, expl) }

\* explored[i] = explored[state]: the predecessor's predecessor stored.
SetGrandparent(expl, i, pred) ==
    [k \in DOMAIN expl \cup {i} |->
        IF k \in DOMAIN expl /\ ~__eq__(k, i) THEN expl[k] ELSE Lookup(expl, pred)]

\* Line 113: explored[i] = pred.  A key equal to i keeps its place and gets
\* the new value; otherwise i becomes a new key.
SetPredecessor(expl, i, pred) ==
    IF \E k \in DOMAIN expl : __eq__(k, i)
    THEN [k \in DOMAIN expl |-> IF __eq__(k, i) THEN pred ELSE expl[k]]
    ELSE [k \in DOMAIN expl \cup {i} |-> IF k = i THEN pred ELSE expl[k]]

\* queue.insert(0, i) instead of queue.append(i).
queue_insert_front(q, i) == <<i>> \o q

\* Line 114: queue.append(i).
queue_append(q, i) == Append(q, i)

----------------------------------------------------------------------------
(* argmax                                                                  *)

\* How a call of argmax stands: "running", "raised" (IndexError) or
\* "returned" with the value returned (0 otherwise).
Running == [kind |-> "running", value |-> 0]

\* Line 134: `not domain`.
is_empty(d) == Len(d) = 0

\* `return None` in place of the raise of line 135.
ReturnNone == [kind |-> "returned", value |-> 0]

\* Line 135: raise IndexError.
RaiseIndexError == [kind |-> "raised", value |-> 0]

\* `val >= max_func_val` in place of the test of line 140.
greater_or_equal(val, best) == val >= best

\* Line 140: `val > max_func_val`.
greater(val, best) == val > best

----------------------------------------------------------------------------
(* The puzzles the search is run on.                                       *)

\* Every two-bucket puzzle with capacities in 1..MaxCap, the larger bucket
\* first as in the examples of the main block (the mirror images behave
\* alike), any valid start (0 <= values[i] <= constraints[i]), any target in
\* 0..MaxCap+1, refills on or off.
SmallPuzzles ==
    { s \in [values : [1..2 -> 0..MaxCap], constraints : [1..2 -> 1..MaxCap],
             target : 0..(MaxCap + 1), allow_refills : BOOLEAN] :
        /\ s.constraints[1] >= s.constraints[2]
        /\ \A i \in 1..2 : s.values[i] <= s.constraints[i] }

\* Line 162: the first example of the main block.
Example53 == State(<<0, 0>>, <<5, 3>>, 4, TRUE)

\* Line 170: the third example of the main block.
Example853 == State(<<8, 0, 0>>, <<8, 5, 3>>, 4, FALSE)

Puzzles == SmallPuzzles \cup { Example53 }

----------------------------------------------------------------------------
(* The state machine.                                                      *)

\* No call of argmax has been made.
NoArgmax ==
    /\ domain = <<>>
    /\ function = <<>>
    /\ arg = 0
    /\ max_func_val = 0
    /\ it = 0
    /\ func_calls = 0
    /\ outcome = Running

\* Lines 105-106 of the first call, made on a State the caller constructed.
Init ==
    /\ initial_state \in Puzzles
    /\ explored = [k \in { initial_state } |-> Sentinel]
    /\ queue = <<initial_state>>
    /\ state = initial_state
    /\ pending = {}
    /\ path = <<>>
    /\ pc = "while"
    /\ result = <<>>
    /\ returned = <<>>
    /\ enqueued = 0
    /\ ctor_args = initial_state
    /\ constructed = initial_state
    /\ NoArgmax

\* Lines 107-110 and 123: the popped state is a goal; unravel_bfs is called
\* and starts its path with it.
Found ==
    /\ pc = "while"
    /\ queue # <<>>
    /\ is_goal(queue_pop(queue)[1])
    /\ state' = queue_pop(queue)[1]
    /\ queue' = queue_pop(queue)[2]
    /\ path' = <<queue_pop(queue)[1]>>
    /\ pc' = "unravel"
    /\ UNCHANGED <<initial_state, explored, pending, result, returned,
                   enqueued>>
    /\ UNCHANGED <<ctor_vars, argmax_vars>>

\* Lines 124-125: one pass of the while loop of unravel_bfs.
Unravel ==
    /\ pc = "unravel"
    /\ last_in_explored(path, explored)
    /\ path' = Append(path, Lookup(explored, path[Len(path)]))
    /\ UNCHANGED <<initial_state, explored, queue, state, pending, pc, result,
                   returned, enqueued>>
    /\ UNCHANGED <<ctor_vars, argmax_vars>>

\* Lines 124, 126 and 110: the loop of unravel_bfs is over; the reversed
\* path is returned by unravel_bfs and by breadth_first_search.
ReturnPath ==
    /\ pc = "unravel"
    /\ ~last_in_explored(path, explored)
    /\ result' = reversed(path)
    /\ returned' = Append(returned, reversed(path))
    /\ pc' = "done"
    /\ UNCHANGED <<initial_state, explored, queue, state, pending, path,
                   enqueued>>
    /\ UNCHANGED <<ctor_vars, argmax_vars>>

\* Lines 107-112: the popped state is no goal; the for loop starts on its
\* neighbors.  A pass over a neighbor that is in explored changes nothing, so
\* pending keeps only the neighbors that are not (and the loop is over at once
\* when there are none).
Dequeue ==
    /\ pc = "while"
    /\ queue # <<>>
    /\ ~is_goal(queue_pop(queue)[1])
    /\ state' = queue_pop(queue)[1]
    /\ queue' = queue_pop(queue)[2]
    /\ pending' = NewNeighbors(queue_pop(queue)[1], explored)
    /\ pc' = IF NewNeighbors(queue_pop(queue)[1], explored) = {}
             THEN "while" ELSE "for"
    /\ UNCHANGED <<initial_state, explored, path, result, returned, enqueued>>
    /\ UNCHANGED <<ctor_vars, argmax_vars>>

\* Lines 111-114: the next pass of the for loop that finds a neighbor not in
\* explored.  The list of line 64 is built by iterating a Python set, whose
\* order the program does not fix: the pass takes any neighbor still pending.
Visit ==
    /\ pc = "for"
    /\ \E i \in pending :
          /\ explored' = SetPredecessor(explored, i, state)
          /\ queue' = queue_append(queue, i)
          /\ pending' = pending \ {i}
          /\ pc' = IF pending \ {i} = {} THEN "while" ELSE "for"
    /\ enqueued' = enqueued + 1
    /\ UNCHANGED <<initial_state, state, path, result, returned>>
    /\ UNCHANGED <<ctor_vars, argmax_vars>>

\* Lines 107, 115: the queue is empty; return [].
Exhausted ==
    /\ pc = "while"
    /\ queue = <<>>
    /\ result' = <<>>
    /\ pc' = "done"
    /\ returned' = Append(returned, <<>>)
    /\ UNCHANGED <<initial_state, explored, queue, state, pending, path,
                   enqueued>>
    /\ UNCHANGED <<ctor_vars, argmax_vars>>

\* Lines 180-182 (and 150): the caller runs breadth_first_search again on the
\* same puzzle; lines 105-106 of the new call.
SearchAgain ==
    /\ pc = "done"
    /\ Len(returned) = 1
    /\ explored' = [k \in { initial_state } |-> Sentinel]
    /\ queue' = <<initial_state>>
    /\ state' = initial_state
    /\ pending' = {}
    /\ path' = <<>>
    /\ pc' = "while"
    /\ result' = <<>>
    /\ enqueued' = 0
    /\ UNCHANGED <<initial_state, returned>>
    /\ UNCHANGED <<ctor_vars, argmax_vars>>

\* One call of breadth_first_search.
Search ==
    \/ Found \/ Unravel \/ ReturnPath
    \/ Dequeue \/ Visit
    \/ Exhausted

Next == Search \/ SearchAgain

Spec == Init /\ [][Next]_vars

\* One call of breadth_first_search on each puzzle.
SearchSpec == Init /\ [][Search]_vars

\* One call, run to its end: the loops keep running until the function
\* returns, the program being sequential with nothing to suspend it.
LiveSpec == Init /\ [][Search]_vars /\ WF_vars(Search)

----------------------------------------------------------------------------
(* The constructor, called on arbitrary arguments.                         *)

\* Tuples of one or two integers of S.
Tuples(S) == UNION { [1..n -> S] : n \in 1..2 }

\* The arguments the constructor is called with: also values and constraints
\* of different lengths, negative values, values above the capacity and
\* capacities of 0.
CtorArgs ==
    [values : Tuples(-1..(MaxCap + 1)), constraints : Tuples(0..MaxCap),
     target : 0..MaxCap, allow_refills : BOOLEAN]

\* The caller, before any search: the first example has been constructed.
MainInit ==
    /\ initial_state = Example53
    /\ explored = [k \in { initial_state } |-> Sentinel]
    /\ queue = <<initial_state>>
    /\ state = initial_state
    /\ pending = {}
    /\ path = <<>>
    /\ pc = "main"
    /\ result = <<>>
    /\ returned = <<>>
    /\ enqueued = 0
    /\ ctor_args = initial_state
    /\ constructed = initial_state

\* Lines 23-27: a call State(values, constraints, target, allow_refills).
Construct ==
    /\ pc = "main"
    /\ \E a \in CtorArgs :
          /\ ctor_args' = a
          /\ constructed' = State(a.values, a.constraints, a.target,
                                  a.allow_refills)
    /\ pc' = "constructed"
    /\ UNCHANGED <<bfs_vars, argmax_vars>>

CtorInit == MainInit /\ NoArgmax

CtorSpec == CtorInit /\ [][Construct]_vars

----------------------------------------------------------------------------
(* get_neighbors, called on arbitrary valid states.                        *)

\* Every valid state of two or three buckets with capacities in 1..MaxCap.
NeighborInputs ==
    { s \in [values : UNION { [1..n -> 0..MaxCap] : n \in 2..3 },
             constraints : UNION { [1..n -> 1..MaxCap] : n \in 2..3 },
             target : 0..MaxCap, allow_refills : BOOLEAN] :
        /\ DOMAIN s.values = DOMAIN s.constraints
        /\ \A i \in DOMAIN s.values : s.values[i] <= s.constraints[i] }

\* The caller holds a State it constructed.
NeighborsInit ==
    /\ initial_state \in NeighborInputs
    /\ explored = [k \in { initial_state } |-> Sentinel]
    /\ queue = <<initial_state>>
    /\ state = initial_state
    /\ pending = {}
    /\ path = <<>>
    /\ pc = "main"
    /\ result = <<>>
    /\ returned = <<>>
    /\ enqueued = 0
    /\ ctor_args = initial_state
    /\ constructed = initial_state
    /\ NoArgmax

\* Lines 33-65: state.get_neighbors() is called; pending is the list returned.
CallGetNeighbors ==
    /\ pc = "main"
    /\ pending' = get_neighbors(state)
    /\ pc' = "neighbors"
    /\ UNCHANGED <<initial_state, explored, queue, state, path, result,
                   returned, enqueued, ctor_vars, argmax_vars>>

NeighborsSpec == NeighborsInit /\ [][CallGetNeighbors]_vars

----------------------------------------------------------------------------
(* argmax, called on arbitrary lists and scoring functions.                *)

\* The lists handed to argmax: every list of at most MaxLen items.
Domains == UNION { [1..n -> 1..MaxLen] : n \in 0..MaxLen }

\* The scoring functions: every table of scores of the items.
Functions == [1..MaxLen -> 0..MaxScore]

\* Line 180: the caller calls argmax(domain, function).
ArgmaxInit ==
    /\ MainInit
    /\ domain \in Domains
    /\ function \in Functions
    /\ arg = 0
    /\ max_func_val = 0
    /\ it = 0
    /\ func_calls = 0
    /\ outcome = Running

\* Line 129: argmax is entered.
ArgmaxCall ==
    /\ pc = "main"
    /\ pc' = "argmax"
    /\ UNCHANGED <<bfs_vars, ctor_vars, argmax_vars>>

\* Lines 134-135: the domain is empty; IndexError is raised to the caller.
ArgmaxRaise ==
    /\ pc = "argmax"
    /\ is_empty(domain)
    /\ outcome' = RaiseIndexError
    /\ pc' = "argmax_done"
    /\ UNCHANGED <<bfs_vars, ctor_vars, domain, function, arg, max_func_val,
                   it, func_calls>>

\* Lines 134-138: the domain is not empty; the first element and its score
\* are the best so far, and the for loop starts at the first element.
ArgmaxFirst ==
    /\ pc = "argmax"
    /\ ~is_empty(domain)
    /\ arg' = domain[1]
    /\ max_func_val' = function[domain[1]]
    /\ func_calls' = func_calls + 1
    /\ it' = 1
    /\ pc' = "argmax_for"
    /\ UNCHANGED <<bfs_vars, ctor_vars, domain, function, outcome>>

\* Lines 138-142: one pass of the for loop.
ArgmaxLoop ==
    /\ pc = "argmax_for"
    /\ it <= Len(domain)
    /\ IF greater(function[domain[it]], max_func_val)
       THEN /\ max_func_val' = function[domain[it]]
            /\ arg' = domain[it]
       ELSE UNCHANGED <<max_func_val, arg>>
    /\ func_calls' = func_calls + 1
    /\ it' = it + 1
    /\ UNCHANGED <<bfs_vars, ctor_vars, pc, domain, function, outcome>>

\* Lines 138, 143: the for loop is over; return arg.
ArgmaxReturn ==
    /\ pc = "argmax_for"
    /\ it > Len(domain)
    /\ outcome' = [kind |-> "returned", value |-> arg]
    /\ pc' = "argmax_done"
    /\ UNCHANGED <<bfs_vars, ctor_vars, domain, function, arg, max_func_val,
                   it, func_calls>>

argmax ==
    \/ ArgmaxCall
    \/ ArgmaxRaise
    \/ ArgmaxFirst \/ ArgmaxLoop \/ ArgmaxReturn

ArgmaxSpec == ArgmaxInit /\ [][argmax]_vars

----------------------------------------------------------------------------
(* Notions the properties are stated in.                                   *)

\* The capacity invariant of a State: 0 <= values[i] <= constraints[i].
Valid(s) ==
    \A i \in DOMAIN s.values : 0 <= s.values[i] /\ s.values[i] <= s.constraints[i]

\* The number of moves of the shortest sequence of legal moves from the
\* states of frontier (themselves d moves from the start) to a goal state, or
\* -1 when no goal state can be reached.  It expands whole distance levels as
\* sets, so it depends on no queue and no enumeration order.
RECURSIVE GoalDepth(_, _, _)
GoalDepth(frontier, seen, d) ==
    IF frontier = {} THEN -1
    ELSE IF \E s \in frontier : is_goal(s) THEN d
    ELSE LET next == (UNION { get_neighbors(s) : s \in frontier }) \ seen
         IN  GoalDepth(next, seen \cup next, d + 1)

ShortestMoves(s) == GoalDepth({s}, {s}, 0)

\* The shortest solution of the third example of the main block.
Example853Moves == ShortestMoves(Example853)

\* The bucket configurations of a returned list, in order (the sentinel left out).
Configurations(p) == SelectSeq(p, LAMBDA x : x # Sentinel)

\* The number of moves a returned list stands for.
NumMoves(p) == Len(Configurations(p)) - 1

\* p[-1].
Last(p) == p[Len(p)]

\* prod(constraints[i] + 1): the number of valid values tuples.
RECURSIVE NumConfigurations(_)
NumConfigurations(c) ==
    IF c = <<>> THEN 1 ELSE (Head(c) + 1) * NumConfigurations(Tail(c))

\* The values of self with bucket i filled to its capacity.
Filled(self, i) == _replace(self.values, i, self.constraints[i])

\* The values tuples get_neighbors returns for self.
NeighborValues(self) == { n.values : n \in get_neighbors(self) }

Returned == pc = "done"

Solved == pc = "done" /\ result # <<>>

----------------------------------------------------------------------------
(* C1..C10                                                                 *)

\* C1: the goal state at which breadth_first_search stops is at minimum
\* move-distance from the initial state: the returned list ends in a goal and
\* stands for exactly as many moves as the shortest sequence of legal moves
\* that reaches any goal state.
C1_ShortestPath ==
    Solved => /\ is_goal(Last(result))
              /\ NumMoves(result) = ShortestMoves(initial_state)

\* A search that returned a path of at least four moves.
C1_Witness == Solved /\ NumMoves(result) >= 4

C3_CapacityInvariant ==
    Valid(initial_state) =>
        /\ \A s \in DOMAIN explored : Valid(s)
        /\ Valid(state) /\ \A n \in get_neighbors(state) : Valid(n)
        /\ \A k \in DOMAIN queue : Valid(queue[k])
        /\ \A k \in DOMAIN result : result[k] # Sentinel => Valid(result[k])

\* A search returned a path after discovering a state, other than the initial
\* one, in which a pour left some bucket partly filled.
C3_Witness ==
    /\ Solved
    /\ \E s \in DOMAIN explored :
          /\ s # initial_state
          /\ \E i \in DOMAIN s.values :
                0 < s.values[i] /\ s.values[i] < s.constraints[i]

\* C4: for every valid configuration, get_neighbors never returns a state
\* whose values equal the values of the state it was called on.
C4_NoSelfNeighbor ==
    Valid(state) => \A n \in get_neighbors(state) : n.values # state.values

C7_LegalMoveSequence ==
    Solved =>
        /\ is_goal(Last(result))
        /\ \A k \in DOMAIN result :
              (result[k] # Sentinel /\ result[k] # initial_state) =>
                  /\ k > 1
                  /\ result[k - 1] # Sentinel
                  /\ result[k] \in get_neighbors(result[k - 1])

\* The first call returned a path of at least two moves.
C7_Witness == Solved /\ Len(returned) = 1 /\ NumMoves(result) >= 2

\* C8: breadth_first_search terminates for every valid initial state, whether
\* or not a goal is reachable: a running search always reaches a return, and
\* never enqueues more than prod(constraints[i]+1) states, the initial one
\* included.
C8_Termination ==
    /\ (pc # "done") ~> (pc = "done")
    /\ [](/\ enqueued + 1 <= NumConfigurations(initial_state.constraints)
          /\ Cardinality(DOMAIN explored)
                <= NumConfigurations(initial_state.constraints))

\* A search with no reachable goal returned after enqueuing every one of the
\* prod(constraints[i]+1) configurations.
C8_Witness ==
    /\ Returned /\ result = <<>>
    /\ enqueued + 1 = NumConfigurations(initial_state.constraints)

\* C9: for the popped state and a bucket i that is not full, the
\* configuration with bucket i filled is a neighbor iff allow_refills is
\* true; the fill moves are those of the non-full buckets when refills are
\* allowed and none otherwise; and without refills every neighbor in which a
\* bucket j holds more than before is a pour from another non-empty bucket
\* into j.
C9_FillOnlyWhenAllowed ==
    Valid(state) =>
        /\ \A i \in DOMAIN state.values :
              state.values[i] # state.constraints[i] =>
                  (Filled(state, i) \in NeighborValues(state)
                      <=> state.allow_refills)
        /\ FillMoves(state) =
              IF state.allow_refills
              THEN { Filled(state, i) :
                       i \in { k \in DOMAIN state.values :
                                 state.values[k] # state.constraints[k] } }
              ELSE {}
        /\ ~state.allow_refills =>
              \A n \in NeighborValues(state) : \A j \in DOMAIN n :
                  n[j] > state.values[j] =>
                      \E i \in DOMAIN n \ {j} :
                          state.values[i] # 0 /\ n = Pour(state, i, j)

\* Without refills, the for loop runs over the neighbors of a state that has
\* a bucket that is not full, and in one of them a bucket holds more than
\* before.
C9_Witness ==
    /\ pc = "for"
    /\ ~state.allow_refills
    /\ \E n \in NeighborValues(state) : \E j \in DOMAIN n : n[j] > state.values[j]

\* C10: the calls of breadth_first_search on the same initial state return
\* lists of equal length, whatever order the neighbors were enumerated in.
C10_SameLength ==
    \A a, b \in DOMAIN returned : Len(returned[a]) = Len(returned[b])

\* Two calls returned different paths.
C10_Witness ==
    /\ Len(returned) = 2
    /\ returned[1] # <<>>
    /\ returned[1] # returned[2]

----------------------------------------------------------------------------
(* C11..C19                                                                *)

\* The arguments of the last constructor call are malformed: values and
\* constraints of different lengths, a value above its capacity, a capacity
\* <= 0 or a negative value.
Malformed(a) ==
    \/ Len(a.values) # Len(a.constraints)
    \/ \E i \in DOMAIN a.values \cap DOMAIN a.constraints :
          a.values[i] > a.constraints[i]
    \/ \E i \in DOMAIN a.constraints : a.constraints[i] <= 0
    \/ \E i \in DOMAIN a.values : a.values[i] < 0

\* C11 as stated: constructing a State from malformed arguments fails with
\* InvalidConfiguration instead of producing a State.
C11_MalformedRejected ==
    (pc = "constructed" /\ Malformed(ctor_args))
        => constructed = InvalidConfiguration

\* C11 amended: constructing a State never fails; the State produced holds
\* values, constraints, target and allow_refills exactly as given, also when
\* the arguments are malformed.
C11_StoredAsGiven ==
    /\ constructed # InvalidConfiguration
    /\ constructed = [values |-> ctor_args.values,
                      constraints |-> ctor_args.constraints,
                      target |-> ctor_args.target,
                      allow_refills |-> ctor_args.allow_refills]

\* The constructor was called with one bucket value too many, a negative
\* value, a value above its capacity and a capacity of 0.
C11_Witness ==
    /\ pc = "constructed"
    /\ ctor_args.values = <<1, -1>>
    /\ ctor_args.constraints = <<0>>
    /\ Malformed(ctor_args)

\* C12: argmax called with an empty collection raises IndexError to the
\* caller; it never calls the scoring function and never returns a value.
C12_EmptyRaises ==
    domain = <<>> =>
        /\ func_calls = 0
        /\ pc # "argmax_for"
        /\ outcome.kind # "returned"
        /\ pc = "argmax_done" => outcome.kind = "raised"

\* argmax ended on an empty list.
C12_Witness == domain = <<>> /\ pc = "argmax_done"

\* The position of the first element of d whose score is the largest of d.
FirstMaximum(d, f) ==
    CHOOSE k \in DOMAIN d :
        /\ \A j \in DOMAIN d : f[d[j]] <= f[d[k]]
        /\ \A j \in 1..(k - 1) : f[d[j]] < f[d[k]]

\* C18: for a non-empty collection argmax returns the first element, in
\* enumeration order, whose function value is the maximum over the
\* collection: of several elements of maximal value, the first-seen one.
C18_FirstMaximum ==
    (pc = "argmax_done" /\ domain # <<>>) =>
        /\ outcome.kind = "returned"
        /\ outcome.value = domain[FirstMaximum(domain, function)]

\* argmax returned from a list in which two different elements, the later
\* one last, have the maximal score.
C18_Witness ==
    /\ pc = "argmax_done" /\ outcome.kind = "returned"
    /\ Len(domain) >= 2
    /\ domain[Len(domain)] # domain[FirstMaximum(domain, function)]
    /\ function[domain[Len(domain)]]
          = function[domain[FirstMaximum(domain, function)]]

\* sum(values).
RECURSIVE Sum(_)
Sum(v) == IF v = <<>> THEN 0 ELSE Head(v) + Sum(Tail(v))

\* The amount a pour of bucket i into bucket j of self moves: all of bucket
\* i if it fits into the space left in bucket j, else that space.
Moved(self, i, j) ==
    IF self.values[i] <= self.constraints[j] - self.values[j]
    THEN self.values[i]
    ELSE self.constraints[j] - self.values[j]

\* The ordered pairs (i, j) of different buckets of self with bucket i not
\* empty: the pours that apply to self.
PourPairs(self) ==
    { q \in (DOMAIN self.values) \X (DOMAIN self.values) :
        q[1] # q[2] /\ self.values[q[1]] # 0 }

\* The values of the states of a list get_neighbors returned.
ValuesOf(neighbors) == { n.values : n \in neighbors }

\* C13: a pour from a non-empty bucket i into a different bucket j of a
\* valid state moves exactly moved = min(values[i], constraints[j] -
\* values[j]): the configuration it produces, one of the neighbors returned,
\* has values[j] + moved in j, values[i] - moved in i and every other bucket
\* unchanged, so the total is conserved, and bucket i is empty or bucket j
\* full afterwards.
C13_PourMovesMin ==
    (pc = "neighbors" /\ Valid(state)) =>
        \A q \in PourPairs(state) :
            LET i == q[1]
                j == q[2]
                moved == Moved(state, i, j)
                n == Pour(state, i, j)
            IN  /\ n \in ValuesOf(pending)
                /\ DOMAIN n = DOMAIN state.values
                /\ n[j] = state.values[j] + moved
                /\ n[i] = state.values[i] - moved
                /\ \A k \in DOMAIN n \ {i, j} : n[k] = state.values[k]
                /\ Sum(n) = Sum(state.values)
                /\ n[i] = 0 \/ n[j] = state.constraints[j]

\* get_neighbors returned for a state of three buckets one of whose pours
\* fills the target bucket and leaves water in the source bucket, the bucket
\* that takes no part in it not being empty.
C13_Witness ==
    /\ pc = "neighbors"
    /\ Len(state.values) = 3
    /\ \E q \in PourPairs(state) :
          /\ \E k \in DOMAIN state.values \ {q[1], q[2]} : state.values[k] # 0
          /\ 0 < Moved(state, q[1], q[2])
          /\ Moved(state, q[1], q[2]) < state.values[q[1]]
          /\ Pour(state, q[1], q[2]) \in ValuesOf(pending)

\* The results of the moves that apply to self: empty i when values[i] # 0,
\* fill i when refills are allowed and i is not full, pour i into j for every
\* pair of PourPairs.
MoveResults(self) ==
    { [self.values EXCEPT ![i] = 0] :
        i \in { k \in DOMAIN self.values : self.values[k] # 0 } }
    \cup
    { [self.values EXCEPT ![i] = self.constraints[i]] :
        i \in { k \in DOMAIN self.values :
                  self.allow_refills /\ self.values[k] # self.constraints[k] } }
    \cup
    { [self.values EXCEPT ![q[2]] = @ + Moved(self, q[1], q[2]),
                          ![q[1]] = @ - Moved(self, q[1], q[2])] :
        q \in PourPairs(self) }

\* C14: get_neighbors of a valid state returns exactly the results of all
\* the moves that apply to it, each once: no two returned states have equal
\* values, also when different moves produce the same configuration.
C14_ExactlyTheMoves ==
    (pc = "neighbors" /\ Valid(state)) =>
        /\ ValuesOf(pending) = MoveResults(state)
        /\ \A a, b \in pending : a.values = b.values => a = b
        /\ Cardinality(pending) = Cardinality(MoveResults(state))

\* get_neighbors returned for a state of three buckets in which two
\* different pours produce the same configuration.
C14_Witness ==
    /\ pc = "neighbors"
    /\ Len(state.values) = 3
    /\ \E q, r \in PourPairs(state) :
          /\ q # r
          /\ Pour(state, q[1], q[2]) = Pour(state, r[1], r[2])
          /\ Pour(state, q[1], q[2]) \in ValuesOf(pending)

\* The values tuples that are keys of explored.
ExploredValues == { k.values : k \in DOMAIN explored }

\* C15: during breadth_first_search each distinct values tuple is added to
\* explored and to the queue at most once, the predecessor recorded at first
\* discovery is never overwritten, and every state in the queue is a key of
\* explored.
C15_DiscoveredOnce ==
    /\ [](/\ \A a, b \in DOMAIN explored : a.values = b.values => a = b
          /\ \A k, l \in DOMAIN queue :
                queue[k].values = queue[l].values => k = l
          /\ \A k \in DOMAIN queue : queue[k].values \in ExploredValues
          /\ enqueued + 1 = Cardinality(ExploredValues))
    /\ [][pc # "done" =>
            /\ \A k \in DOMAIN explored :
                  k \in DOMAIN explored' /\ explored'[k] = explored[k]
            /\ Len(queue') > Len(queue) =>
                  /\ queue' = Append(queue, queue'[Len(queue')])
                  /\ queue'[Len(queue')].values \notin ExploredValues
                  /\ queue'[Len(queue')] \in DOMAIN explored'
                  /\ explored'[queue'[Len(queue')]] = state]_vars

\* The popped state has a neighbor, with other values than its own, that was
\* discovered before from another state and is not pending: its first
\* predecessor stays.
C15_Witness ==
    /\ pc = "for"
    /\ \E n \in get_neighbors(state) :
          /\ n.values # state.values
          /\ n \notin pending
          /\ n \in DOMAIN explored
          /\ explored[n] # Sentinel
          /\ explored[n].values # state.values

\* The pairs <<values, d>> of the states at d moves from the states of
\* frontier, the distances found level by level over get_neighbors.
RECURSIVE Distances(_, _, _)
Distances(frontier, seen, d) ==
    IF frontier = {} THEN {}
    ELSE LET next == (UNION { get_neighbors(s) : s \in frontier }) \ seen
         IN  { <<s.values, d>> : s \in frontier }
                 \cup Distances(next, seen \cup next, d + 1)

\* For every puzzle the search is run on, the pairs <<values, d>> of the
\* configurations that can be reached from its initial state with their
\* minimum move-distance d.
DistanceTable == { <<p, Distances({p}, {p}, 0)>> : p \in Puzzles }

\* The pairs of DistanceTable for the puzzle the search runs on.
InitialDistances == (CHOOSE e \in DistanceTable : e[1] = initial_state)[2]

\* The minimum move-distance of s from the initial state, read from the
\* pairs ds.
DistanceIn(ds, s) == (CHOOSE e \in ds : e[1] = s.values)[2]

\* C16: breadth_first_search dequeues states in non-decreasing order of their
\* minimum move-distance from the initial state: the queue is ordered by
\* distance, no state waiting in it is nearer than the state dequeued last
\* (so no state at distance k+1 is dequeued while a discovered state at
\* distance k waits), and the predecessor recorded for a state at distance
\* k+1 is at distance k.
C16_DistanceOrder ==
    LET ds == InitialDistances
    IN  /\ \A k \in 1..(Len(queue) - 1) :
              DistanceIn(ds, queue[k]) <= DistanceIn(ds, queue[k + 1])
        /\ \A k \in DOMAIN queue :
              /\ DistanceIn(ds, state) <= DistanceIn(ds, queue[k])
              /\ DistanceIn(ds, queue[k]) <= DistanceIn(ds, state) + 1
        /\ \A k \in DOMAIN explored :
              explored[k] # Sentinel =>
                  DistanceIn(ds, k) = DistanceIn(ds, explored[k]) + 1

\* A state two moves or more from the initial state has been dequeued while
\* the queue holds states at two different distances.
C16_Witness ==
    LET ds == InitialDistances
    IN  /\ pc = "while"
        /\ DistanceIn(ds, state) >= 2
        /\ \E k, l \in DOMAIN queue :
              DistanceIn(ds, queue[k]) < DistanceIn(ds, queue[l])

\* s carries the constraints, target and allow_refills of t.
SameAttributes(s, t) ==
    /\ s.constraints = t.constraints
    /\ s.target = t.target
    /\ s.allow_refills = t.allow_refills

\* C17: every state get_neighbors returns carries the constraints, target
\* and allow_refills of the state it was generated from, and the state it
\* was called on keeps its values while the for loop runs over the result;
\* hence the three attributes are those of the initial state in every state
\* of a search.
C17_AttributesConstant ==
    /\ [](/\ \A n \in get_neighbors(state) : SameAttributes(n, state)
          /\ \A k \in DOMAIN explored : SameAttributes(k, initial_state)
          /\ \A k \in DOMAIN queue : SameAttributes(queue[k], initial_state)
          /\ \A n \in pending : SameAttributes(n, initial_state)
          /\ SameAttributes(state, initial_state)
          /\ \A k \in DOMAIN result :
                result[k] # Sentinel => SameAttributes(result[k], initial_state))
    /\ [][(pc = "while" /\ pc' \in {"while", "for"})
             => state' = Head(queue)]_vars
    /\ [][pc = "for" => state' = state]_vars

\* A search without refills runs the for loop over the neighbors of a state
\* it discovered.
C17_Witness ==
    /\ pc = "for"
    /\ ~initial_state.allow_refills
    /\ state.values # initial_state.values
    /\ pending # {}

\* C19: in a search started without refills from a valid state the total
\* sum(values) never increases along a move (an empty lowers it, a pour
\* keeps it), so every state discovered has a total no greater than the
\* initial state's.
C19_TotalNeverIncreases ==
    (~initial_state.allow_refills /\ Valid(initial_state)) =>
        /\ \A n \in EmptyMoves(state) : Sum(n) < Sum(state.values)
        /\ \A n \in PourMoves(state) : Sum(n) = Sum(state.values)
        /\ \A n \in get_neighbors(state) : Sum(n.values) <= Sum(state.values)
        /\ \A k \in DOMAIN explored :
              Sum(k.values) <= Sum(initial_state.values)
        /\ \A k \in DOMAIN queue :
              Sum(queue[k].values) <= Sum(initial_state.values)

\* A search without refills returned after discovering a state of lower
\* total than the initial state and another of the same total.
C19_Witness ==
    /\ Returned
    /\ ~initial_state.allow_refills
    /\ \E k \in DOMAIN explored : Sum(k.values) < Sum(initial_state.values)
    /\ \E k \in DOMAIN explored :
          /\ k.values # initial_state.values
          /\ Sum(k.values) = Sum(initial_state.values)

====
